---- MODULE Spec2Model ----
(***************************************************************************)
(* ReviseRight ("Lecture Pilot"): the top-level application state machine  *)
(* of App.tsx, the generation fan-out over the generators of               *)
(* services/geminiService.ts, and the tutor chat of the Dashboard          *)
(* component.                                                              *)
(*                                                                         *)
(* Encoding of values.  JavaScript null is the record Null.  A string is a *)
(* sequence of text fragments (so '' is << >>); a string in a nullable     *)
(* field is a record [kind, text] around it.  A transcript is a record     *)
(* [body, len]: the identity of its content and its length in characters,  *)
(* so that substring(0, n) is computed on the length.  ChatMessage ids and  *)
(* timestamps (Date.now()) are not modelled.                               *)
(***************************************************************************)
EXTENDS Integers, Sequences, FiniteSets, TLC

VARIABLES
    appState,      \* App.tsx: the AppState held by useState
    sessionCheck,  \* App.tsx: "pending" until checkSession() has resumed
    signOutPending, \* a Sign Out click is awaiting supabase.auth.signOut()
    fans,          \* calls of handleStartProcessing suspended at Promise.all
    subsLeft,      \* submissions the behaviour may still contain
    faultsLeft,    \* AI collaborator faults the behaviour may still contain
    dash,          \* Dashboard component state (Unmounted when not rendered)
    chatReqs,      \* calls of handleSendMessage suspended at chatWithLecture
    turnsLeft,     \* tutor turns the behaviour may still contain
    last,          \* the handler that ran last, with what it acted on
    upload,        \* UploadSection component state (Unmounted when not rendered)
    ytReqs,        \* calls of handleYouTubeProcess suspended at one of their awaits
    widget         \* a component or service call studied on its own (Null otherwise)

vars == <<appState, sessionCheck, signOutPending, fans, subsLeft, faultsLeft,
          dash, chatReqs, turnsLeft, last, upload, ytReqs, widget>>

----------------------------------------------------------------------------
(* Bounds of the model *)

MaxSubmissions == 1
MaxFaults == 1
MaxTurns == 2
MaxQuestions == 3
MaxTotal == 20
MaxCards == 4
MaxClicks == 5

----------------------------------------------------------------------------
(* types.ts *)

Null == [kind |-> "null"]

AUTH == "AUTH"
UPLOAD == "UPLOAD"
PROCESSING == "PROCESSING"
DASHBOARD == "DASHBOARD"
ViewState == {AUTH, UPLOAD, PROCESSING, DASHBOARD}

UNIVERSITY == "University Final"
COMPETITIVE == "Competitive Exam (MCQ)"
SCHOOL == "School Test"
GENERAL == "General Knowledge"
ExamType == {UNIVERSITY, COMPETITIVE, SCHOOL, GENERAL}

ONE_DAY == "1 Day"
ONE_WEEK == "1 Week"
ONE_MONTH == "1 Month"
TimeFrame == {ONE_DAY, ONE_WEEK, ONE_MONTH}

\* The seven fields of the StudyBundle, in the order of the Promise.all array.
BundleFields ==
    {"summary", "chapters", "formulas", "strategy", "quiz", "flashcards", "cheatSheet"}

----------------------------------------------------------------------------
(* Inputs the environment supplies *)

\* Identities the identity backend or the demo path can hand over.
Users == {[id |-> "u1", email |-> "a@b.com", name |-> "Jane"]}

\* Transcripts a user can paste: one below the length the submit button asks
\* for, a short-enough one and one longer than the 20000-character prefix some
\* generators keep.
Transcripts ==
    {[body |-> "S", len |-> 49], [body |-> "A", len |-> 60], [body |-> "B", len |-> 25000]}

\* Exam configurations chosen in the selectors of the upload screen.
ExamTypeInputs == {COMPETITIVE}
TimeFrameInputs == {ONE_DAY}

\* Texts typed into the tutor's input box.
ChatInputs == {<<>>, <<" ">>, <<"why?">>}

----------------------------------------------------------------------------
(* The AI collaborator: ai.models.generateContent *)

\* What one request to the AI collaborator can come to: a non-empty text, a
\* response without text, a text that is not JSON (structured requests only),
\* or a thrown request error.
FreeTextOutcomes == {"text", "empty", "throw"}
StructuredOutcomes == {"text", "empty", "garbage", "throw"}

Min(a, b) == IF a < b THEN a ELSE b

\* text.substring(0, n)
Substring(text, n) == [body |-> text.body, len |-> Min(text.len, n)]

\* The structured payload the collaborator answers a request with.
Payload(ask, text) ==
    CASE ask = "chapters" ->
           <<[timestamp |-> "00:00", title |-> text.body, summary |-> text.body]>>
      [] ask = "formulas" ->
           <<[expression |-> text.body, description |-> text.body]>>
      [] ask = "strategy" ->
           [kind |-> "strategy", priorityTopics |-> <<text.body>>,
            skipTopics |-> << >>, focusAdvice |-> <<text.body>>]
      [] ask = "quiz" ->
           <<[id |-> 1, question |-> text.body, options |-> <<"a", "b", "c", "d">>,
              correctAnswerIndex |-> 0, explanation |-> text.body]>>
      [] ask = "flashcards" ->
           <<[id |-> 1, front |-> text.body, back |-> text.body]>>

\* A quiz payload that fits the response schema of generateQuiz (an array of
\* objects with the five required properties, options an array of strings,
\* correctAnswerIndex an integer) with three options and the index 5.
LooseQuiz ==
    <<[id |-> 1, question |-> "q", options |-> <<"a", "b", "c">>,
       correctAnswerIndex |-> 5, explanation |-> "e"]>>

\* response.text of a request under an outcome (the "throw" outcome has no
\* response): free text repeats what it was asked, structured text is the JSON
\* encoding of a payload.
ResponseText(request, outcome) ==
    CASE outcome = "empty" -> << >>
      [] outcome = "garbage" -> <<"not json">>
      [] outcome = "loose" -> <<"json", LooseQuiz>>
      [] outcome = "text" /\ request.structured ->
           <<"json", Payload(request.ask, request.text)>>
      [] outcome = "text" /\ ~request.structured ->
           <<"reply", request>>

\* JSON.parse: defined on the JSON encodings only, a SyntaxError otherwise.
JSONparses(s) == Len(s) = 2 /\ s[1] = "json"
JSONparse(s) == s[2]
EmptyArrayText == <<"json", << >> >>
EmptyObject == [kind |-> "object"]
EmptyObjectText == <<"json", EmptyObject>>

\* a || b on strings
OrElse(a, b) == IF a = << >> THEN b ELSE a

\* A settled promise; ai records the collaborator's outcome behind it.
Fulfilled(v, outcome) == [st |-> "fulfilled", val |-> v, ai |-> outcome]
Rejected(e, outcome) == [st |-> "rejected", val |-> e, ai |-> outcome]
\* A pending promise has no value yet; v only gives the field its type.
Pending(v) == [st |-> "pending", val |-> v, ai |-> "pending"]

----------------------------------------------------------------------------
(* services/geminiService.ts: the generators, each under an outcome of its *)
(* single request                                                          *)

SummaryRequest(text) ==
    [ask |-> "summary", structured |-> FALSE, text |-> Substring(text, 30000)]

\* generateSummary with the catch block of generateCheatSheet: the error is
\* swallowed and a fixed text returned.
generateSummary_Swallows(text, outcome) ==
    Fulfilled(IF outcome = "throw" THEN <<"Could not generate summary.">>
              ELSE OrElse(ResponseText(SummaryRequest(text), outcome),
                          <<"Failed to generate summary.">>), outcome)

generateSummary(text, outcome) ==
    IF outcome = "throw"
    THEN Rejected(<<"Could not generate summary.">>, outcome)
    ELSE Fulfilled(OrElse(ResponseText(SummaryRequest(text), outcome),
                          <<"Failed to generate summary.">>), outcome)

\* The body shared by generateChapters, extractFormulas, generateQuiz and
\* generateFlashcards: parse the text (or "[]"), and [] on any error.
ListRequest(ask, text, n) ==
    [ask |-> ask, structured |-> TRUE, text |-> Substring(text, n)]

ParseListOrEmpty(request, outcome) ==
    IF outcome = "throw"
    THEN Fulfilled(<< >>, outcome)
    ELSE LET t == OrElse(ResponseText(request, outcome), EmptyArrayText)
         IN  IF JSONparses(t) THEN Fulfilled(JSONparse(t), outcome)
                              ELSE Fulfilled(<< >>, outcome)

generateChapters(text, outcome) ==
    ParseListOrEmpty(ListRequest("chapters", text, 30000), outcome)

extractFormulas(text, outcome) ==
    ParseListOrEmpty(ListRequest("formulas", text, 30000), outcome)

\* generateQuiz without its catch block: a request error or a SyntaxError of
\* JSON.parse rejects the promise.
generateQuiz_Rethrows(text, outcome) ==
    IF outcome \in {"throw", "garbage"}
    THEN Rejected(<<"Quiz Gen Error">>, outcome)
    ELSE ParseListOrEmpty(ListRequest("quiz", text, 20000), outcome)

generateQuiz(text, outcome) ==
    ParseListOrEmpty(ListRequest("quiz", text, 20000), outcome)

generateFlashcards(text, outcome) ==
    ParseListOrEmpty(ListRequest("flashcards", text, 20000), outcome)

DefaultStrategy ==
    [kind |-> "strategy", priorityTopics |-> <<"Core Concepts">>,
     skipTopics |-> <<"Detailed derivations">>,
     focusAdvice |-> <<"Focus on the main summary points.">>]

StrategyRequest(text, type, time) ==
    [ask |-> "strategy", structured |-> TRUE, text |-> Substring(text, 20000),
     type |-> type, time |-> time]

generateExamStrategy(text, type, time, outcome) ==
    IF outcome = "throw"
    THEN Fulfilled(DefaultStrategy, outcome)
    ELSE LET t == OrElse(ResponseText(StrategyRequest(text, type, time), outcome),
                         EmptyObjectText)
         IN  IF JSONparses(t) THEN Fulfilled(JSONparse(t), outcome)
                              ELSE Fulfilled(DefaultStrategy, outcome)

CheatSheetRequest(text) ==
    [ask |-> "cheatSheet", structured |-> FALSE, text |-> Substring(text, 30000)]

generateCheatSheet(text, outcome) ==
    IF outcome = "throw"
    THEN Fulfilled(<<"Could not generate cheat sheet.">>, outcome)
    ELSE Fulfilled(OrElse(ResponseText(CheatSheetRequest(text), outcome), << >>),
                   outcome)

\* The outcomes the request of a generator can have.
Outcomes(g) ==
    IF g \in {"summary", "cheatSheet"} THEN FreeTextOutcomes ELSE StructuredOutcomes

\* The generator handleStartProcessing calls for bundle field g.
Generate(g, text, examType, timeFrame, outcome) ==
    CASE g = "summary" -> generateSummary(text, outcome)
      [] g = "chapters" -> generateChapters(text, outcome)
      [] g = "formulas" -> extractFormulas(text, outcome)
      [] g = "strategy" -> generateExamStrategy(text, examType, timeFrame, outcome)
      [] g = "quiz" -> generateQuiz(text, outcome)
      [] g = "flashcards" -> generateFlashcards(text, outcome)
      [] g = "cheatSheet" -> generateCheatSheet(text, outcome)

\* Promise.all over the seven promises: rejected as soon as one is rejected,
\* fulfilled once all are fulfilled.
\* Promise.any in place of Promise.all: fulfilled with the first fulfilment.
PromiseAll_Any(res) ==
    IF \E g \in DOMAIN res : res[g].st = "fulfilled" THEN "fulfilled"
    ELSE IF \A g \in DOMAIN res : res[g].st = "rejected" THEN "rejected"
    ELSE "pending"

PromiseAll(res) ==
    IF \E g \in DOMAIN res : res[g].st = "rejected" THEN "rejected"
    ELSE IF \A g \in DOMAIN res : res[g].st = "fulfilled" THEN "fulfilled"
    ELSE "pending"

----------------------------------------------------------------------------
(* App.tsx: the application state and what it renders *)

InitialAppState ==
    [view |-> AUTH, user |-> Null, lecture |-> Null,
     examType |-> UNIVERSITY, timeFrame |-> ONE_WEEK,
     summary |-> << >>, chapters |-> << >>, formulas |-> << >>, strategy |-> Null,
     quiz |-> << >>, flashcards |-> << >>, cheatSheet |-> << >>,
     chatHistory |-> << >>, error |-> Null]

WelcomeMessage ==
    [sender |-> "ai",
     text |-> <<"Hi! I am your AI Tutor. I have analyzed the lecture. Ask me anything about the concepts or specific doubts!">>]

AggregateError ==
    [kind |-> "string",
     text |-> <<"An error occurred while communicating with the AI. Please try again.">>]

\* The Dashboard is rendered only while the view is DASHBOARD; an instance keeps
\* its own state from mount to unmount.
Unmounted == [kind |-> "unmounted"]

\* Dashboard: the useState initial values of a newly mounted instance.
MountDashboard(state) ==
    [chatMessages |-> state.chatHistory, chatInput |-> << >>, isChatLoading |-> FALSE]

\* UploadSection: the useState initial values of a newly mounted instance.
MountUploadSection == [isTranscribing |-> FALSE, statusMsg |-> << >>, awaiting |-> 0]

\* setAppState followed by the render it causes: the Dashboard instance is kept
\* while the view stays DASHBOARD, mounted anew when the view becomes DASHBOARD
\* and dropped when it leaves it.  The state updates of a tutor request that
\* completes after its instance was dropped are ignored, so the request is
\* dropped with the instance.
SetAppState(new) ==
    /\ appState' = new
    /\ dash' = IF new.view # DASHBOARD THEN Unmounted
               ELSE IF appState.view = DASHBOARD THEN dash
               ELSE MountDashboard(new)
    /\ chatReqs' = IF new.view = DASHBOARD /\ appState.view = DASHBOARD
                   THEN chatReqs ELSE {}
    /\ upload' = IF new.view # UPLOAD THEN Unmounted
                 ELSE IF appState.view = UPLOAD THEN upload
                 ELSE MountUploadSection

Event(op) == [op |-> op, fan |-> Null, ai |-> "none"]
FanEvent(op, f) == [op |-> op, fan |-> f, ai |-> "none"]
AIEvent(op, outcome) == [op |-> op, fan |-> Null, ai |-> outcome]

Init ==
    /\ appState = InitialAppState
    /\ sessionCheck = "pending"
    /\ signOutPending = FALSE
    /\ fans = {}
    /\ subsLeft = MaxSubmissions
    /\ faultsLeft = MaxFaults
    /\ dash = Unmounted
    /\ chatReqs = {}
    /\ turnsLeft = MaxTurns
    /\ last = Event("init")
    /\ upload = Unmounted
    /\ ytReqs = {}
    /\ widget = Null

----------------------------------------------------------------------------
(* App.tsx: session restoration and session-change notifications *)

\* checkSession resumes after supabase.auth.getSession(): with a session, with
\* none, or with an error (returned or thrown).
checkSession(outcome, user) ==
    /\ sessionCheck = "pending"
    /\ sessionCheck' = "done"
    /\ IF outcome = "session"
       THEN SetAppState([appState EXCEPT !.user = user, !.view = UPLOAD])
       ELSE UNCHANGED <<appState, dash, chatReqs, upload>>
    /\ last' = Event("checkSession")
    /\ UNCHANGED <<signOutPending, fans, subsLeft, faultsLeft, turnsLeft, ytReqs, widget>>

\* The onAuthStateChange callback, with a session's user or with Null.
onAuthStateChange(session) ==
    /\ IF session # Null
       THEN SetAppState([appState EXCEPT
                !.user = session,
                !.view = IF appState.view = AUTH THEN UPLOAD ELSE appState.view])
       ELSE SetAppState([appState EXCEPT !.user = Null, !.view = AUTH])
    /\ last' = Event(IF session # Null THEN "sessionChange" ELSE "sessionGone")
    /\ UNCHANGED <<sessionCheck, signOutPending, fans, subsLeft, faultsLeft, turnsLeft, ytReqs, widget>>

\* handleLogin, called by the Auth component, which is rendered while the view
\* is AUTH.
handleLogin(user) ==
    /\ appState.view = AUTH
    /\ SetAppState([appState EXCEPT !.user = user, !.view = UPLOAD])
    /\ last' = Event("handleLogin")
    /\ UNCHANGED <<sessionCheck, signOutPending, fans, subsLeft, faultsLeft, turnsLeft, ytReqs, widget>>

\* A click on Sign Out (upload screen or Dashboard header): the handler awaits
\* supabase.auth.signOut() before it calls handleSignOut.
SignOutClick ==
    /\ appState.view \in {UPLOAD, DASHBOARD}
    /\ ~signOutPending
    /\ signOutPending' = TRUE
    /\ last' = Event("signOutClick")
    /\ UNCHANGED <<appState, sessionCheck, fans, subsLeft, faultsLeft, dash, chatReqs,
                   turnsLeft, upload, ytReqs, widget>>

handleSignOut ==
    /\ signOutPending
    /\ signOutPending' = FALSE
    /\ SetAppState([appState EXCEPT
            !.view = AUTH, !.user = Null, !.lecture = Null,
            !.summary = << >>, !.quiz = << >>, !.error = Null])
    /\ last' = Event("handleSignOut")
    /\ UNCHANGED <<sessionCheck, fans, subsLeft, faultsLeft, turnsLeft, ytReqs, widget>>

handleReset ==
    /\ appState.view = DASHBOARD
    /\ SetAppState([appState EXCEPT
            !.view = UPLOAD, !.lecture = Null,
            !.summary = << >>, !.quiz = << >>, !.error = Null])
    /\ last' = Event("handleReset")
    /\ UNCHANGED <<sessionCheck, signOutPending, fans, subsLeft, faultsLeft, turnsLeft, ytReqs, widget>>

\* The close button of the error toast, rendered in every view but AUTH.
DismissError ==
    /\ appState.view # AUTH
    /\ appState.error # Null
    /\ SetAppState([appState EXCEPT !.error = Null])
    /\ last' = Event("dismissError")
    /\ UNCHANGED <<sessionCheck, signOutPending, fans, subsLeft, faultsLeft, turnsLeft, ytReqs, widget>>

----------------------------------------------------------------------------
(* App.tsx: handleStartProcessing, the generation fan-out *)

\* UploadSection: the submit button of the text tab is disabled below this length.
MinTranscriptLength == 50

\* The part of handleStartProcessing before its await: the first setAppState,
\* then the seven generator calls, each issuing its request.  pre keeps the
\* application state the call found.
handleStartProcessing(text, title, examType, timeFrame, videoId) ==
    /\ subsLeft > 0
    /\ subsLeft' = subsLeft - 1
    /\ SetAppState([appState EXCEPT
            !.view = PROCESSING,
            !.lecture = [title |-> title, transcript |-> text, videoId |-> videoId],
            !.examType = examType,
            !.timeFrame = timeFrame])
    /\ fans' = fans \cup
         {[id |-> subsLeft, text |-> text, examType |-> examType,
           timeFrame |-> timeFrame,
           res |-> [g \in BundleFields |-> Pending(InitialAppState[g])],
           pre |-> appState]}

\* UploadSection, text tab: a click on "Generate Revision Kit".  A submission
\* is kept back for every video resolution still under way.
SubmitText ==
    \E text \in Transcripts, examType \in ExamTypeInputs, timeFrame \in TimeFrameInputs :
        /\ appState.view = UPLOAD
        /\ text.len >= MinTranscriptLength
        /\ subsLeft > Cardinality(ytReqs)
        /\ handleStartProcessing(text, <<"Lecture 101">>, examType, timeFrame, Null)
        /\ last' = Event("handleStartProcessing")
        /\ UNCHANGED <<sessionCheck, signOutPending, faultsLeft, turnsLeft, ytReqs,
                       widget>>

\* The request of generator g of fan-out f comes to an outcome and the
\* generator's promise settles.
GeneratorSettles(f, g, outcome) ==
    /\ f.res[g].st = "pending"
    /\ outcome # "text" => faultsLeft > 0
    /\ faultsLeft' = IF outcome # "text" THEN faultsLeft - 1 ELSE faultsLeft
    /\ fans' = (fans \ {f}) \cup
         {[f EXCEPT !.res[g] = Generate(g, f.text, f.examType, f.timeFrame, outcome)]}
    /\ last' = AIEvent("generatorSettles", outcome)
    /\ UNCHANGED <<appState, sessionCheck, signOutPending, subsLeft, dash, chatReqs,
                   turnsLeft, upload, ytReqs, widget>>

\* handleStartProcessing resumes after the await with the seven results.
JoinFulfilled(f) ==
    /\ PromiseAll(f.res) = "fulfilled"
    /\ SetAppState([appState EXCEPT
            !.view = DASHBOARD,
            !.summary = f.res["summary"].val,
            !.chapters = f.res["chapters"].val,
            !.formulas = f.res["formulas"].val,
            !.strategy = f.res["strategy"].val,
            !.quiz = f.res["quiz"].val,
            !.flashcards = f.res["flashcards"].val,
            !.cheatSheet = f.res["cheatSheet"].val,
            !.chatHistory = <<WelcomeMessage>>])
    /\ fans' = fans \ {f}
    /\ last' = FanEvent("joinFulfilled", f)
    /\ UNCHANGED <<sessionCheck, signOutPending, subsLeft, faultsLeft, turnsLeft, ytReqs, widget>>

\* handleStartProcessing resumes in its catch block.  The requests still
\* outstanding are abandoned: their results are never read.
JoinRejected(f) ==
    /\ PromiseAll(f.res) = "rejected"
    /\ SetAppState([appState EXCEPT !.view = UPLOAD, !.error = AggregateError])
    /\ fans' = fans \ {f}
    /\ last' = FanEvent("joinRejected", f)
    /\ UNCHANGED <<sessionCheck, signOutPending, subsLeft, faultsLeft, turnsLeft, ytReqs, widget>>

----------------------------------------------------------------------------
(* UploadSection: the video path *)

\* A URL is the sequence of its characters.
VideoId == <<"d", "Q", "w", "4", "w", "9", "W", "g", "X", "c", "Q">>
YoutuBe == <<"y", "o", "u", "t", "u", ".", "b", "e", "/">>
WatchV == <<"w", "a", "t", "c", "h", "?", "v", "=">>
Embed == <<"e", "m", "b", "e", "d", "/">>

\* URLs typed into the link box of the upload screen: a short link with an
\* 11-character id and one with a 3-character id.
UrlInputs == {YoutuBe \o VideoId, YoutuBe \o <<"a", "b", "c">>}

\* . of a regular expression (no s flag): any character but a line terminator
AnyChar(c) == c \notin {"\n", "\r"}

\* \w of a regular expression
WordChar(c) ==
    c \in {"a", "b", "c", "d", "e", "f", "g", "h", "i", "j", "k", "l", "m",
           "n", "o", "p", "q", "r", "s", "t", "u", "v", "w", "x", "y", "z",
           "A", "B", "C", "D", "E", "F", "G", "H", "I", "J", "K", "L", "M",
           "N", "O", "P", "Q", "R", "S", "T", "U", "V", "W", "X", "Y", "Z",
           "0", "1", "2", "3", "4", "5", "6", "7", "8", "9", "_"}

\* The characters lit stand in url from position i on.
Literal(url, i, lit) ==
    /\ i + Len(lit) - 1 <= Len(url)
    /\ \A k \in 1..Len(lit) : url[i + k - 1] = lit[k]

\* Group 1 of the expression, (youtu.be\/|v\/|u\/\w\/|embed\/|watch\?v=|&v=),
\* tried at position i: the length of what it matches, 0 when it does not
\* match.  The alternatives begin with different characters, so at most one
\* matches.
MarkerLength(url, i) ==
    CASE /\ Literal(url, i, <<"y", "o", "u", "t", "u">>)
         /\ i + 8 <= Len(url)
         /\ AnyChar(url[i + 5])
         /\ Literal(url, i + 6, <<"b", "e", "/">>) -> 9
      [] Literal(url, i, <<"v", "/">>) -> 2
      [] /\ Literal(url, i, <<"u", "/">>)
         /\ i + 3 <= Len(url)
         /\ WordChar(url[i + 2])
         /\ url[i + 3] = "/" -> 4
      [] Literal(url, i, Embed) -> 6
      [] Literal(url, i, WatchV) -> 8
      [] Literal(url, i, <<"&", "v", "=">>) -> 3
      [] OTHER -> 0

Max(S) == CHOOSE x \in S : \A y \in S : y <= x

\* Group 2, ([^#&?]*), from position i on: the longest run without # & ?.
RECURSIVE NoDelimiterRun(_, _)
NoDelimiterRun(url, i) ==
    IF i > Len(url) \/ url[i] \in {"#", "&", "?"}
    THEN << >>
    ELSE <<url[i]>> \o NoDelimiterRun(url, i + 1)

\* The match with a lazy leading .*?: group 1 at the first position where it
\* can be.
MatchGroup2_FirstMarker(url) ==
    LET starts == {i \in 1..Len(url) :
                     /\ MarkerLength(url, i) > 0
                     /\ \A k \in 1..(i - 1) : AnyChar(url[k])}
        first == CHOOSE i \in starts : \A j \in starts : i <= j
    IN  IF starts = {} THEN Null
        ELSE [kind |-> "string",
              text |-> NoDelimiterRun(url, first + MarkerLength(url, first))]

\* url.match(/^.*(...)([^#&?]*).*/): the leading .* is greedy, so group 1 is
\* matched at the last position where it can be, behind a prefix without line
\* terminator; the result is group 2, or Null without a match.
MatchGroup2(url) ==
    LET starts == {i \in 1..Len(url) :
                     /\ MarkerLength(url, i) > 0
                     /\ \A k \in 1..(i - 1) : AnyChar(url[k])}
    IN  IF starts = {} THEN Null
        ELSE [kind |-> "string",
              text |-> NoDelimiterRun(url, Max(starts) + MarkerLength(url, Max(starts)))]

\* extractVideoId without the test of the length.
extractVideoId_AnyLength(url) == MatchGroup2(url)

extractVideoId(url) ==
    LET match == MatchGroup2(url)
    IN  IF match # Null /\ Len(match.text) = 11 THEN match ELSE Null

\* fetchVideoTitle: data.title || null, and null when the fetch fails.  The
\* title is only used through realTitle || ..., so null is the empty text.
fetchVideoTitle(url, outcome) ==
    IF outcome = "title" THEN <<"title of ">> \o url ELSE << >>

TranscriptRequest(url, title) ==
    [ask |-> "transcript", structured |-> FALSE, url |-> url, title |-> title]

\* generateYouTubeTranscript: the reconstructed transcript, or one of two fixed
\* texts (30 and 83 characters long) in its place.
generateYouTubeTranscript(url, title, outcome) ==
    IF outcome = "throw"
    THEN Fulfilled([body |-> "Error processing YouTube video. The AI could not access the video content directly.",
                    len |-> 83], outcome)
    ELSE IF ResponseText(TranscriptRequest(url, title), outcome) = << >>
         THEN Fulfilled([body |-> "Failed to generate transcript.", len |-> 30], outcome)
         ELSE Fulfilled([body |-> "Welcome...", len |-> 6000], outcome)

\* The call r of handleYouTubeProcess was made by the UploadSection instance
\* that is mounted now.
Owns(r) == upload # Unmounted /\ upload.isTranscribing /\ upload.awaiting = r.id

\* A click on "Launch Lecture Pilot" in the link tab, enabled with a non-empty
\* link while no resolution is under way: handleYouTubeProcess up to its first
\* await.
handleYouTubeProcess(ytUrl, examType, timeFrame) ==
    /\ appState.view = UPLOAD
    /\ ytUrl # << >>
    /\ ~upload.isTranscribing
    /\ LET videoId == extractVideoId(ytUrl)
       IN  IF videoId = Null
           THEN /\ last' = Event("alert: Invalid YouTube URL")
                /\ UNCHANGED <<upload, ytReqs>>
           ELSE /\ subsLeft > Cardinality(ytReqs)
                /\ upload' = [isTranscribing |-> TRUE,
                              statusMsg |-> <<"Fetching video metadata...">>,
                              awaiting |-> subsLeft - Cardinality(ytReqs)]
                /\ ytReqs' = ytReqs \cup
                     {[id |-> subsLeft - Cardinality(ytReqs), url |-> ytUrl,
                       videoId |-> videoId, examType |-> examType,
                       timeFrame |-> timeFrame, stage |-> "metadata",
                       realTitle |-> << >>]}
                /\ last' = Event("handleYouTubeProcess")
    /\ UNCHANGED <<appState, sessionCheck, signOutPending, fans, subsLeft, faultsLeft,
                   dash, chatReqs, turnsLeft, widget>>

\* handleYouTubeProcess resumes after fetchVideoTitle and issues the
\* transcript request.
TitleSettles(r, outcome) ==
    /\ r.stage = "metadata"
    /\ ytReqs' = (ytReqs \ {r}) \cup
         {[r EXCEPT !.stage = "transcript", !.realTitle = fetchVideoTitle(r.url, outcome)]}
    /\ upload' = IF Owns(r)
                 THEN [upload EXCEPT !.statusMsg =
                          <<"Analyzing video content (this may take a moment)...">>]
                 ELSE upload
    /\ last' = Event("titleSettles")
    /\ UNCHANGED <<appState, sessionCheck, signOutPending, fans, subsLeft, faultsLeft,
                   dash, chatReqs, turnsLeft, widget>>

\* handleYouTubeProcess resumes after generateYouTubeTranscript: it calls
\* onStart with the transcript, or its catch block raises the alert; finally it
\* clears the flag and the status of its UploadSection instance, which onStart
\* has unmounted.
TranscriptSettles(r, outcome) ==
    /\ r.stage = "transcript"
    /\ outcome # "text" => faultsLeft > 0
    /\ faultsLeft' = IF outcome # "text" THEN faultsLeft - 1 ELSE faultsLeft
    /\ ytReqs' = ytReqs \ {r}
    /\ LET transcript == generateYouTubeTranscript(r.url, r.realTitle, outcome)
       IN  IF transcript.st = "fulfilled"
           THEN /\ handleStartProcessing(transcript.val,
                        OrElse(r.realTitle, <<"YouTube Lecture">>),
                        r.examType, r.timeFrame, r.videoId)
                /\ last' = AIEvent("transcriptSettles", outcome)
           ELSE /\ upload' = IF Owns(r) THEN MountUploadSection ELSE upload
                /\ last' = AIEvent("alert: Failed to analyze video. Please check the link and try again.",
                                   outcome)
                /\ UNCHANGED <<appState, fans, subsLeft, dash, chatReqs>>
    /\ UNCHANGED <<sessionCheck, signOutPending, turnsLeft, widget>>

----------------------------------------------------------------------------
(* Dashboard: the tutor chat *)

RECURSIVE TrimStart(_)
TrimStart(s) == IF s # << >> /\ Head(s) = " " THEN TrimStart(Tail(s)) ELSE s

RECURSIVE TrimEnd(_)
TrimEnd(s) ==
    IF s # << >> /\ s[Len(s)] = " " THEN TrimEnd(SubSeq(s, 1, Len(s) - 1)) ELSE s

\* s.trim()
Trim(s) == TrimEnd(TrimStart(s))

\* !chatInput, without the trim
IsBlank_NoTrim(s) == s = << >>

\* !chatInput.trim()
IsBlank(s) == Trim(s) = << >>

\* state.lecture?.transcript || ''
TranscriptOf(state) ==
    IF state.lecture = Null THEN [body |-> "", len |-> 0] ELSE state.lecture.transcript

\* chatMessages.map(m => ({role: m.sender, content: m.text}))
RoleContent(messages) ==
    [i \in 1..Len(messages) |-> [role |-> messages[i].sender, content |-> messages[i].text]]

\* The contents chatWithLecture sends: the context around the truncated
\* transcript and the student's question.
ChatRequest(transcript, history, message) ==
    [ask |-> "chat", structured |-> FALSE,
     text |-> Substring(transcript, 20000), question |-> message]

\* chatWithLecture with the catch block of generateSummary: the error is
\* thrown on.
chatWithLecture_Rethrows(transcript, history, message, outcome) ==
    IF outcome = "throw"
    THEN Rejected(<<"Chat Error">>, outcome)
    ELSE Fulfilled(OrElse(ResponseText(ChatRequest(transcript, history, message), outcome),
                          <<"I'm having trouble thinking right now.">>), outcome)

chatWithLecture(transcript, history, message, outcome) ==
    IF outcome = "throw"
    THEN Fulfilled(<<"Sorry, I encountered an error answering that.">>, outcome)
    ELSE Fulfilled(OrElse(ResponseText(ChatRequest(transcript, history, message), outcome),
                          <<"I'm having trouble thinking right now.">>), outcome)

SetChatInput(s) ==
    /\ appState.view = DASHBOARD
    /\ s # dash.chatInput
    /\ dash' = [dash EXCEPT !.chatInput = s]
    /\ last' = Event("setChatInput")
    /\ UNCHANGED <<appState, sessionCheck, signOutPending, fans, subsLeft, faultsLeft,
                   chatReqs, turnsLeft, upload, ytReqs, widget>>

\* handleSendMessage up to its await.  The submit button is disabled while
\* isChatLoading; a blank input is turned away by the handler itself.
handleSendMessage ==
    /\ appState.view = DASHBOARD
    /\ ~dash.isChatLoading
    /\ IF IsBlank(dash.chatInput)
       THEN /\ last' = Event("sendBlank")
            /\ UNCHANGED <<dash, chatReqs, turnsLeft>>
       ELSE /\ turnsLeft > 0
            /\ turnsLeft' = turnsLeft - 1
            /\ dash' = [chatMessages |->
                            Append(dash.chatMessages,
                                   [sender |-> "user", text |-> dash.chatInput]),
                        chatInput |-> << >>,
                        isChatLoading |-> TRUE]
            /\ chatReqs' = chatReqs \cup
                 {[transcript |-> TranscriptOf(appState),
                   history |-> RoleContent(dash.chatMessages),
                   message |-> dash.chatInput,
                   request |-> ChatRequest(TranscriptOf(appState),
                                           RoleContent(dash.chatMessages),
                                           dash.chatInput)]}
            /\ last' = Event("handleSendMessage")
    /\ UNCHANGED <<appState, sessionCheck, signOutPending, fans, subsLeft, faultsLeft,
                   upload, ytReqs, widget>>

\* handleSendMessage resuming with setIsChatLoading(false) at the end of its try
\* block instead of in a finally block: a failed turn leaves the flag set.
ChatSettles_KeepsFlagOnFailure(r, outcome) ==
    /\ r \in chatReqs
    /\ outcome # "text" => faultsLeft > 0
    /\ faultsLeft' = IF outcome # "text" THEN faultsLeft - 1 ELSE faultsLeft
    /\ LET response == chatWithLecture(r.transcript, r.history, r.message, outcome)
       IN  dash' = [dash EXCEPT
                !.chatMessages =
                    IF response.st = "fulfilled"
                    THEN Append(@, [sender |-> "ai", text |-> response.val])
                    ELSE @,
                !.isChatLoading = (outcome # "text")]
    /\ chatReqs' = chatReqs \ {r}
    /\ last' = AIEvent("chatSettles", outcome)
    /\ UNCHANGED <<appState, sessionCheck, signOutPending, fans, subsLeft, turnsLeft,
                   upload, ytReqs, widget>>

\* handleSendMessage resumes after chatWithLecture: the reply is appended, or
\* the catch block runs, and finally the composing flag is cleared.
ChatSettles(r, outcome) ==
    /\ r \in chatReqs
    /\ outcome # "text" => faultsLeft > 0
    /\ faultsLeft' = IF outcome # "text" THEN faultsLeft - 1 ELSE faultsLeft
    /\ LET response == chatWithLecture(r.transcript, r.history, r.message, outcome)
       IN  dash' = [dash EXCEPT
                !.chatMessages =
                    IF response.st = "fulfilled"
                    THEN Append(@, [sender |-> "ai", text |-> response.val])
                    ELSE @,
                !.isChatLoading = FALSE]
    /\ chatReqs' = chatReqs \ {r}
    /\ last' = AIEvent("chatSettles", outcome)
    /\ UNCHANGED <<appState, sessionCheck, signOutPending, fans, subsLeft, turnsLeft,
                   upload, ytReqs, widget>>

----------------------------------------------------------------------------

\* Every step but the resumption of checkSession.
NextRestored ==
    \/ \E session \in Users \cup {Null} : onAuthStateChange(session)
    \/ \E user \in Users : handleLogin(user)
    \/ SignOutClick
    \/ handleSignOut
    \/ handleReset
    \/ DismissError
    \/ SubmitText
    \/ \E f \in fans, g \in BundleFields : \E outcome \in Outcomes(g) :
           GeneratorSettles(f, g, outcome)
    \/ \E f \in fans : JoinFulfilled(f)
    \/ \E f \in fans : JoinRejected(f)
    \/ \E s \in ChatInputs : SetChatInput(s)
    \/ handleSendMessage
    \/ \E r \in chatReqs, outcome \in FreeTextOutcomes : ChatSettles(r, outcome)

Next ==
    \/ \E outcome \in {"session", "none", "error"}, user \in Users :
           checkSession(outcome, user)
    \/ NextRestored

Spec == Init /\ [][Next]_vars

\* The application once checkSession has resumed without a session.
AppAtRest ==
    /\ appState = InitialAppState
    /\ sessionCheck = "done"
    /\ signOutPending = FALSE
    /\ fans = {}
    /\ subsLeft = MaxSubmissions
    /\ faultsLeft = MaxFaults
    /\ dash = Unmounted
    /\ chatReqs = {}
    /\ turnsLeft = MaxTurns
    /\ last = Event("checkSession")
    /\ upload = Unmounted
    /\ ytReqs = {}

InitRestored == AppAtRest /\ widget = Null

SpecRestored == InitRestored /\ [][NextRestored]_vars

\* The same application with a collaborator whose quiz answers may also be
\* well-formed JSON that the response schema admits and the data model does not.
NextPayload ==
    \/ NextRestored
    \/ \E f \in fans : GeneratorSettles(f, "quiz", "loose")

SpecPayload == InitRestored /\ [][NextPayload]_vars

\* Submissions one session of use may hold when a second submission is followed.
MaxResubmissions == 2

\* The application at rest with room for a second submission, one failure of
\* the AI collaborator and one tutor question.
InitAgain ==
    /\ appState = InitialAppState
    /\ sessionCheck = "done"
    /\ signOutPending = FALSE
    /\ fans = {}
    /\ subsLeft = MaxResubmissions
    /\ faultsLeft = 1
    /\ dash = Unmounted
    /\ chatReqs = {}
    /\ turnsLeft = 1
    /\ last = Event("checkSession")
    /\ upload = Unmounted
    /\ ytReqs = {}
    /\ widget = Null

\* The order in which handleStartProcessing issues the seven requests.
RequestOrder ==
    <<"summary", "chapters", "formulas", "strategy", "quiz", "flashcards", "cheatSheet">>

\* NextRestored with a collaborator that answers the requests of a fan-out in
\* the order they were issued.
NextAgain ==
    \/ \E session \in Users \cup {Null} : onAuthStateChange(session)
    \/ \E user \in Users : handleLogin(user)
    \/ SignOutClick
    \/ handleSignOut
    \/ handleReset
    \/ DismissError
    \/ SubmitText
    \/ \E f \in fans, i \in 1..Len(RequestOrder) : \E outcome \in Outcomes(RequestOrder[i]) :
           /\ \A j \in 1..(i - 1) : f.res[RequestOrder[j]].st # "pending"
           /\ GeneratorSettles(f, RequestOrder[i], outcome)
    \/ \E f \in fans : JoinFulfilled(f)
    \/ \E f \in fans : JoinRejected(f)
    \/ \E s \in ChatInputs : SetChatInput(s)
    \/ handleSendMessage
    \/ \E r \in chatReqs, outcome \in FreeTextOutcomes : ChatSettles(r, outcome)

SpecAgain == InitAgain /\ [][NextAgain]_vars

\* The upload screen with its two ways in, the pasted text and the video
\* link, and the generation they start; the tutor is left out.
NextUpload ==
    \/ \E session \in Users \cup {Null} : onAuthStateChange(session)
    \/ \E user \in Users : handleLogin(user)
    \/ SignOutClick
    \/ handleSignOut
    \/ handleReset
    \/ DismissError
    \/ SubmitText
    \/ \E ytUrl \in UrlInputs, examType \in ExamTypeInputs, timeFrame \in TimeFrameInputs :
           handleYouTubeProcess(ytUrl, examType, timeFrame)
    \/ \E r \in ytReqs, outcome \in {"title", "none"} : TitleSettles(r, outcome)
    \/ \E r \in ytReqs, outcome \in FreeTextOutcomes : TranscriptSettles(r, outcome)
    \/ \E f \in fans, g \in BundleFields : \E outcome \in Outcomes(g) :
           GeneratorSettles(f, g, outcome)
    \/ \E f \in fans : JoinFulfilled(f)
    \/ \E f \in fans : JoinRejected(f)

SpecUpload == InitRestored /\ [][NextUpload]_vars

\* SpecRestored with every tutor request coming to an outcome: the AI
\* collaborator answers or fails, it does not stay silent for ever.
ChatCompletes == \E r \in chatReqs, outcome \in FreeTextOutcomes : ChatSettles(r, outcome)

SpecChatFair == SpecRestored /\ WF_vars(ChatCompletes)

----------------------------------------------------------------------------
(* Components and functions studied on their own, in the variable widget *)

appVars == <<appState, sessionCheck, signOutPending, fans, subsLeft, faultsLeft,
             dash, chatReqs, turnsLeft, last, upload, ytReqs>>

\* The result of a call that has not been made yet.
Unset == [kind |-> "unset"]

\* Links extractVideoId is given: something before the marker, a marker of the
\* expression or something else, an id of 11, 10, 12 or no characters, and
\* something behind it.
UrlPrefixes == {<< >>, <<"a", "/">>, WatchV \o <<"a", "b", "c", "&">>}
UrlMarkers ==
    {YoutuBe, <<"v", "/">>, <<"u", "/", "1", "/">>, Embed, WatchV, <<"&", "v", "=">>,
     <<"y", "o", "u", "t", "u", "-", "b", "e", "/">>, <<"x", "=">>, << >>}
UrlIds == {VideoId, SubSeq(VideoId, 1, 10), VideoId \o <<"A">>, << >>}
UrlSuffixes == {<< >>, <<"?", "t">>, <<"&", "t">>, <<"#", "t">>, <<"/", "t">>}
Urls ==
    {p \o m \o i \o x : p \in UrlPrefixes, m \in UrlMarkers, i \in UrlIds,
                        x \in UrlSuffixes}

InitExtract ==
    /\ AppAtRest
    /\ widget \in {[kind |-> "extractVideoId", url |-> url, result |-> Unset] : url \in Urls}

\* The call extractVideoId(url).
CallExtractVideoId ==
    /\ widget.kind = "extractVideoId"
    /\ widget.result = Unset
    /\ widget' = [widget EXCEPT !.result = extractVideoId(widget.url)]
    /\ UNCHANGED appVars

NextExtract == CallExtractVideoId

SpecExtract == InitExtract /\ [][NextExtract]_vars

----------------------------------------------------------------------------
(* QuizComponent *)

\* Questions the component is given: the AI collaborator numbers them and
\* names the correct option; nothing makes the numbers differ.  Question text,
\* option texts and explanation take no part in the component's logic.
OptionIndices == 0..3
QuestionIds == {1, 2, 3}
QuestionInputs ==
    {[id |-> i, correctAnswerIndex |-> c] : i \in QuestionIds, c \in {0, 3}}

RECURSIVE SeqsUpTo(_, _)
SeqsUpTo(S, n) ==
    IF n = 0 THEN {<< >>}
    ELSE LET shorter == SeqsUpTo(S, n - 1)
         IN  shorter \cup {Append(q, x) : q \in {t \in shorter : Len(t) = n - 1}, x \in S}

\* The non-empty quizzes (an empty one renders "No quiz generated.").
Quizzes == SeqsUpTo(QuestionInputs, MaxQuestions) \ {<< >>}

\* calculateScore counting the questions that have an answer.
RECURSIVE calculateScore_CountsAnswered(_, _)
calculateScore_CountsAnswered(questions, userAnswers) ==
    IF questions = << >> THEN 0
    ELSE (IF Head(questions).id \in DOMAIN userAnswers THEN 1 ELSE 0)
         + calculateScore_CountsAnswered(Tail(questions), userAnswers)

\* calculateScore: the loop over the questions; userAnswers[q.id] is undefined
\* for a question without answer.
RECURSIVE calculateScore(_, _)
calculateScore(questions, userAnswers) ==
    IF questions = << >> THEN 0
    ELSE (IF /\ Head(questions).id \in DOMAIN userAnswers
             /\ userAnswers[Head(questions).id] = Head(questions).correctAnswerIndex
          THEN 1 ELSE 0)
         + calculateScore(Tail(questions), userAnswers)

\* (score / total) * 100 >= bound.  The quotient and the product are IEEE
\* doubles; for the totals of the model (and up to 2000) the rounded value lies
\* on the same side of 90, 70 and 50 as the exact one.
PercentageAtLeast(score, total, bound) == 100 * score >= bound * total

\* getPerformanceFeedback with thresholds that are not reached by equality.
getPerformanceFeedback_Strict(score, total) ==
    IF 100 * score > 90 * total
    THEN [title |-> "Outstanding Mastery!", color |-> "text-green-400"]
    ELSE IF 100 * score > 70 * total
    THEN [title |-> "Great Progress", color |-> "text-indigo-400"]
    ELSE IF 100 * score > 50 * total
    THEN [title |-> "Good Start", color |-> "text-amber-400"]
    ELSE [title |-> "Needs Review", color |-> "text-red-400"]

getPerformanceFeedback(score, total) ==
    IF PercentageAtLeast(score, total, 90)
    THEN [title |-> "Outstanding Mastery!", color |-> "text-green-400"]
    ELSE IF PercentageAtLeast(score, total, 70)
    THEN [title |-> "Great Progress", color |-> "text-indigo-400"]
    ELSE IF PercentageAtLeast(score, total, 50)
    THEN [title |-> "Good Start", color |-> "text-amber-400"]
    ELSE [title |-> "Needs Review", color |-> "text-red-400"]

\* The render of the component: score and feedback are computed from the
\* state on every render.
RenderQuiz(questions, userAnswers, showResults, op) ==
    [kind |-> "QuizComponent", questions |-> questions,
     userAnswers |-> userAnswers, showResults |-> showResults,
     score |-> calculateScore(questions, userAnswers),
     feedback |-> IF showResults
                  THEN getPerformanceFeedback(calculateScore(questions, userAnswers),
                                              Len(questions))
                  ELSE Null,
     last |-> op]

\* {...prev, [qId]: optionIdx}
WithAnswer(userAnswers, qId, optionIdx) ==
    [k \in DOMAIN userAnswers \cup {qId} |->
        IF k = qId THEN optionIdx ELSE userAnswers[k]]

\* The disabled attribute of the Submit Quiz button.
SubmitDisabled(w) == Cardinality(DOMAIN w.userAnswers) < Len(w.questions)

InitQuiz ==
    /\ AppAtRest
    /\ widget \in {RenderQuiz(questions, << >>, FALSE, "mount") : questions \in Quizzes}

\* handleOptionSelect that also records answers while the results are shown.
handleOptionSelect_Always(qId, optionIdx) ==
    /\ widget.kind = "QuizComponent"
    /\ widget' = RenderQuiz(widget.questions,
                            WithAnswer(widget.userAnswers, qId, optionIdx),
                            widget.showResults, "handleOptionSelect")
    /\ UNCHANGED appVars

\* A click on an option button.
handleOptionSelect(qId, optionIdx) ==
    /\ widget.kind = "QuizComponent"
    /\ widget' = RenderQuiz(widget.questions,
                            IF widget.showResults THEN widget.userAnswers
                            ELSE WithAnswer(widget.userAnswers, qId, optionIdx),
                            widget.showResults, "handleOptionSelect")
    /\ UNCHANGED appVars

\* A click on Submit Quiz, rendered while the results are not shown.
SubmitQuiz ==
    /\ widget.kind = "QuizComponent"
    /\ ~widget.showResults
    /\ ~SubmitDisabled(widget)
    /\ widget' = RenderQuiz(widget.questions, widget.userAnswers, TRUE, "submit")
    /\ UNCHANGED appVars

\* A click on Retake Quiz, rendered while the results are shown.
RetakeQuiz ==
    /\ widget.kind = "QuizComponent"
    /\ widget.showResults
    /\ widget' = RenderQuiz(widget.questions, << >>, FALSE, "retake")
    /\ UNCHANGED appVars

NextQuiz ==
    \/ \E i \in 1..Len(widget.questions), optionIdx \in OptionIndices :
           handleOptionSelect(widget.questions[i].id, optionIdx)
    \/ SubmitQuiz
    \/ RetakeQuiz

SpecQuiz == InitQuiz /\ [][NextQuiz]_vars

----------------------------------------------------------------------------
(* FlashcardDeck *)

\* a % b of JavaScript, for b > 0: the remainder has the sign of a.
JSRem(a, b) == IF a >= 0 THEN a % b ELSE 0 - ((0 - a) % b)

\* (prev) => (prev + 1) % cards.length
NextIndex(prev, length) == JSRem(prev + 1, length)

\* (prev) => (prev - 1) % cards.length
PrevIndex_NoWrap(prev, length) == JSRem(prev - 1, length)

\* (prev) => (prev - 1 + cards.length) % cards.length
PrevIndex(prev, length) == JSRem(prev - 1 + length, length)

\* A deck of 1 to MaxCards cards, mounted.  timers holds the callbacks set by
\* setTimeout that have not run yet, oldest first; clicks records the Next
\* Card and Previous clicks made so far.
InitDeck ==
    /\ AppAtRest
    /\ widget \in {[kind |-> "FlashcardDeck", length |-> n, currentIndex |-> 0,
                     flipped |-> FALSE, timers |-> << >>, clicks |-> << >>] :
                    n \in 1..MaxCards}

\* A click on the card.
FlipCard ==
    /\ widget.kind = "FlashcardDeck"
    /\ widget' = [widget EXCEPT !.flipped = ~widget.flipped]
    /\ UNCHANGED appVars

handleNext ==
    /\ widget.kind = "FlashcardDeck"
    /\ Len(widget.clicks) < MaxClicks
    /\ widget' = [widget EXCEPT !.flipped = FALSE,
                                !.timers = Append(@, "next"),
                                !.clicks = Append(@, "next")]
    /\ UNCHANGED appVars

handlePrev ==
    /\ widget.kind = "FlashcardDeck"
    /\ Len(widget.clicks) < MaxClicks
    /\ widget' = [widget EXCEPT !.flipped = FALSE,
                                !.timers = Append(@, "prev"),
                                !.clicks = Append(@, "prev")]
    /\ UNCHANGED appVars

\* The oldest callback runs (all are set with the same delay of 300 ms): the
\* functional update of currentIndex.
TimerFires ==
    /\ widget.kind = "FlashcardDeck"
    /\ widget.timers # << >>
    /\ widget' = [widget EXCEPT
            !.currentIndex = IF Head(widget.timers) = "next"
                             THEN NextIndex(@, widget.length)
                             ELSE PrevIndex(@, widget.length),
            !.timers = Tail(@)]
    /\ UNCHANGED appVars

NextDeck ==
    \/ FlipCard
    \/ handleNext
    \/ handlePrev
    \/ TimerFires

SpecDeck == InitDeck /\ [][NextDeck]_vars

----------------------------------------------------------------------------
(* services/emailService.ts *)

\* SERVICE_ID, TEMPLATE_ID, PUBLIC_KEY: the pasted key or the environment's,
\* each a value or nothing ('' or undefined, the empty text here).
Credentials == {<< >>, <<"configured">>}
EmailConfigs ==
    [SERVICE_ID : Credentials, TEMPLATE_ID : Credentials, PUBLIC_KEY : Credentials]

NameInputs == {<<"Jane">>, <<"Raj">>, << >>}
EmailInputs == {<<"a@b.com">>, <<"not an address">>}

\* SERVICE_ID && TEMPLATE_ID && PUBLIC_KEY
Configured(config) ==
    config.SERVICE_ID # << >> /\ config.TEMPLATE_ID # << >> /\ config.PUBLIC_KEY # << >>

getWelcomeEmailTemplate(studentName) ==
    [subject |-> <<"Welcome to ReviseRight, ">> \o studentName \o <<"!">>,
     body |-> <<"Hi ">> \o studentName \o <<", ... The ReviseRight Team">>]

\* What sendWelcomeEmail returns.
EmailResult(name, simulated) ==
    [success |-> TRUE,
     subject |-> getWelcomeEmailTemplate(name).subject,
     body |-> getWelcomeEmailTemplate(name).body,
     simulated |-> simulated]

InitEmail ==
    /\ AppAtRest
    /\ widget \in {[kind |-> "sendWelcomeEmail", config |-> config, email |-> email,
                     name |-> name, stage |-> "called", sent |-> "no",
                     result |-> Unset] :
                    config \in EmailConfigs, email \in EmailInputs, name \in NameInputs}

\* sendWelcomeEmail up to its first await: emailjs.send with the credentials,
\* or the simulated delay without them.
sendWelcomeEmail ==
    /\ widget.kind = "sendWelcomeEmail"
    /\ widget.stage = "called"
    /\ widget' = IF Configured(widget.config)
                 THEN [widget EXCEPT !.stage = "sending", !.sent = "pending"]
                 ELSE [widget EXCEPT !.stage = "simulating"]
    /\ UNCHANGED appVars

\* emailjs.send settles and its failure is passed on to the caller.
EmailSendSettles_Surfaces(outcome) ==
    /\ widget.kind = "sendWelcomeEmail"
    /\ widget.stage = "sending"
    /\ widget' = IF outcome = "ok"
                 THEN [widget EXCEPT !.stage = "done", !.sent = "ok",
                                     !.result = EmailResult(widget.name, FALSE)]
                 ELSE [widget EXCEPT !.stage = "done", !.sent = "throw",
                                     !.result = [success |-> FALSE]]
    /\ UNCHANGED appVars

\* emailjs.send settles: the result of a real send, or the catch block and on
\* to the simulation.
EmailSendSettles(outcome) ==
    /\ widget.kind = "sendWelcomeEmail"
    /\ widget.stage = "sending"
    /\ widget' = IF outcome = "ok"
                 THEN [widget EXCEPT !.stage = "done", !.sent = "ok",
                                     !.result = EmailResult(widget.name, FALSE)]
                 ELSE [widget EXCEPT !.stage = "simulating", !.sent = "throw"]
    /\ UNCHANGED appVars

\* The simulated network delay of 800 ms is over.
SimulationEnds ==
    /\ widget.kind = "sendWelcomeEmail"
    /\ widget.stage = "simulating"
    /\ widget' = [widget EXCEPT !.stage = "done",
                                !.result = EmailResult(widget.name, TRUE)]
    /\ UNCHANGED appVars

NextEmail ==
    \/ sendWelcomeEmail
    \/ \E outcome \in {"ok", "throw"} : EmailSendSettles(outcome)
    \/ SimulationEnds

SpecEmail == InitEmail /\ [][NextEmail]_vars

----------------------------------------------------------------------------
(* Auth component (rendered while the view is AUTH) *)

\* Submissions of the credential form that are followed.
MaxAttempts == 2

\* What the user types into the form.  The name field is rendered, and
\* required, in sign-up mode only; its state is kept when the mode is toggled.
AuthEmails == {"a@b.com"}
AuthNames == {"", "Jane"}
FormInputs ==
    {[isSignUp |-> isSignUp, email |-> email, name |-> name] :
        isSignUp \in BOOLEAN, email \in AuthEmails, name \in AuthNames}
FormValid(form) == form.isSignUp => form.name # ""

\* Answers of the identity backend to signUp and signInWithPassword.
BackendOutcomes == {"user", "noUser", "error"}
BackendMessage == [kind |-> "string", text |-> <<"Invalid login credentials">>]

\* The user that the timer callback of the demo mode builds, without the name.
DemoUser_NoName(email, name) ==
    [id |-> "demo-user-123", email |-> email, name |-> "Demo Student"]

\* The user that the timer callback of the demo mode builds.
DemoUser(email, name) ==
    [id |-> "demo-user-123", email |-> email,
     name |-> IF name = "" THEN "Demo Student" ELSE name]

\* The pending user after a sign-up the identity backend accepted
\* (data.user.email is the email that was submitted).
RegisteredUser(email, name) ==
    [id |-> "u1", email |-> email, name |-> IF name = "" THEN "Student" ELSE name]

\* The user a sign-in hands to onLogin (user_metadata.full_name).
SignedInUser(email) == [id |-> "u1", email |-> email, name |-> "Jane"]

\* What sendWelcomeEmail resolves to, given how emailjs.send settled (see
\* sendWelcomeEmail, EmailSendSettles and SimulationEnds).
WelcomeEmail(config, name, sendOutcome) ==
    EmailResult(<<name>>, ~(Configured(config) /\ sendOutcome = "ok"))

SendOutcomes(config) == IF Configured(config) THEN {"ok", "throw"} ELSE {"none"}

\* The Auth instance after its first render.
MountAuth(configured, config) ==
    [kind |-> "Auth", isSupabaseConfigured |-> configured, config |-> config,
     mounted |-> TRUE, loading |-> FALSE, error |-> Null, showWelcome |-> FALSE,
     welcomeData |-> Null, pendingUser |-> Null, calls |-> {},
     attemptsLeft |-> MaxAttempts, did |-> [op |-> "mount"]]

InitAuth ==
    /\ AppAtRest
    /\ widget \in {MountAuth(configured, config) :
                     configured \in BOOLEAN, config \in EmailConfigs}

IsAuth == widget # Null /\ widget.kind = "Auth"

\* State updates of an instance that is no longer rendered are ignored.
SetAuth(new) == IF widget.mounted THEN new ELSE [widget EXCEPT !.calls = new.calls,
                                                               !.did = new.did]

\* onLogin is App's handleLogin; the view leaves AUTH and the instance is dropped.
onLogin(user) == SetAppState([appState EXCEPT !.user = user, !.view = UPLOAD])

\* handleAuth up to its first suspension: the timer of the demo mode, or the
\* request to the identity backend.
handleAuth(form) ==
    /\ IsAuth /\ widget.mounted /\ appState.view = AUTH
    /\ ~(widget.showWelcome /\ widget.welcomeData # Null)
    /\ FormValid(form)
    /\ widget.attemptsLeft > 0
    /\ LET id == MaxAttempts - widget.attemptsLeft + 1
           call == [id |-> id, form |-> form,
                    stage |-> IF ~widget.isSupabaseConfigured THEN "timer"
                              ELSE IF form.isSignUp THEN "signUp" ELSE "signIn",
                    user |-> Null]
       IN widget' = [widget EXCEPT !.loading = TRUE, !.error = Null,
                                   !.calls = @ \cup {call},
                                   !.attemptsLeft = @ - 1,
                                   !.did = [op |-> "handleAuth", call |-> call]]
    /\ UNCHANGED appVars

\* The 1000 ms timer of the demo mode fires: sign-up goes on to the welcome
\* email, sign-in logs the demo user in.
DemoTimerFires(c) ==
    /\ IsAuth /\ c \in widget.calls /\ c.stage = "timer"
    /\ LET demoUser == DemoUser(c.form.email, c.form.name)
       IN IF c.form.isSignUp
          THEN /\ widget' = [widget EXCEPT
                               !.calls = (@ \ {c}) \cup
                                         {[c EXCEPT !.stage = "emailDemo", !.user = demoUser]},
                               !.did = [op |-> "demoTimer", call |-> c]]
               /\ UNCHANGED appVars
          ELSE /\ onLogin(demoUser)
               /\ widget' = [widget EXCEPT !.mounted = FALSE, !.calls = @ \ {c},
                                           !.did = [op |-> "onLogin", call |-> c,
                                                    user |-> demoUser]]
               /\ last' = Event("handleLogin")
               /\ UNCHANGED <<sessionCheck, signOutPending, fans, subsLeft, faultsLeft, turnsLeft, ytReqs>>

\* sendWelcomeEmail resolves: the modal data, the pending user and the modal
\* flag are set; the demo mode clears the loading flag, the finally block of
\* the configured mode keeps it for a sign-up.
WelcomeEmailSettles(c, sendOutcome) ==
    /\ IsAuth /\ c \in widget.calls /\ c.stage \in {"emailDemo", "email"}
    /\ sendOutcome \in SendOutcomes(widget.config)
    /\ LET emailResult == WelcomeEmail(widget.config, c.user.name, sendOutcome)
       IN widget' = SetAuth([widget EXCEPT
                       !.welcomeData = [subject |-> emailResult.subject,
                                        body |-> emailResult.body,
                                        simulated |-> emailResult.simulated],
                       !.pendingUser = c.user,
                       !.showWelcome = TRUE,
                       !.loading = IF c.stage = "emailDemo" THEN FALSE ELSE @,
                       !.calls = @ \ {c},
                       !.did = [op |-> "welcomeEmail", call |-> c,
                                sendOutcome |-> sendOutcome]])
    /\ UNCHANGED appVars

\* supabase.auth.signUp settles.
SignUpSettles(c, outcome) ==
    /\ IsAuth /\ c \in widget.calls /\ c.stage = "signUp"
    /\ outcome \in BackendOutcomes
    /\ widget' = SetAuth(
         CASE outcome = "user" ->
                [widget EXCEPT
                   !.calls = (@ \ {c}) \cup
                             {[c EXCEPT !.stage = "email",
                                        !.user = RegisteredUser(c.form.email, c.form.name)]},
                   !.did = [op |-> "signUp", call |-> c, outcome |-> outcome]]
           [] outcome = "noUser" ->
                [widget EXCEPT
                   !.error = [kind |-> "string",
                              text |-> <<"User created, but unexpected response. Please try signing in.">>],
                   !.calls = @ \ {c},
                   !.did = [op |-> "signUp", call |-> c, outcome |-> outcome]]
           [] outcome = "error" ->
                [widget EXCEPT
                   !.error = BackendMessage,
                   !.calls = @ \ {c},
                   !.did = [op |-> "signUp", call |-> c, outcome |-> outcome]])
    /\ UNCHANGED appVars

\* supabase.auth.signInWithPassword settles; the finally block clears the
\* loading flag of a sign-in.
SignInSettles(c, outcome) ==
    /\ IsAuth /\ c \in widget.calls /\ c.stage = "signIn"
    /\ outcome \in BackendOutcomes
    /\ IF outcome = "user"
       THEN /\ onLogin(SignedInUser(c.form.email))
            /\ widget' = [widget EXCEPT !.mounted = FALSE, !.calls = @ \ {c},
                                        !.loading = IF widget.mounted THEN FALSE ELSE @,
                                        !.did = [op |-> "onLogin", call |-> c,
                                                 user |-> SignedInUser(c.form.email)]]
            /\ last' = Event("handleLogin")
            /\ UNCHANGED <<sessionCheck, signOutPending, fans, subsLeft, faultsLeft, turnsLeft, ytReqs>>
       ELSE /\ widget' = SetAuth([widget EXCEPT
                            !.error = IF outcome = "error" THEN BackendMessage ELSE @,
                            !.loading = FALSE,
                            !.calls = @ \ {c},
                            !.did = [op |-> "signIn", call |-> c, outcome |-> outcome]])
            /\ UNCHANGED appVars

\* The Continue button of the welcome modal.
handleContinue ==
    /\ IsAuth /\ widget.mounted
    /\ widget.showWelcome /\ widget.welcomeData # Null
    /\ widget.pendingUser # Null
    /\ onLogin(widget.pendingUser)
    /\ widget' = [widget EXCEPT !.mounted = FALSE,
                                !.did = [op |-> "handleContinue",
                                         user |-> widget.pendingUser]]
    /\ last' = Event("handleLogin")
    /\ UNCHANGED <<sessionCheck, signOutPending, fans, subsLeft, faultsLeft, turnsLeft, ytReqs>>

NextAuth ==
    \/ \E form \in FormInputs : handleAuth(form)
    \/ \E c \in (IF IsAuth THEN widget.calls ELSE {}) : DemoTimerFires(c)
    \/ \E c \in (IF IsAuth THEN widget.calls ELSE {}) :
         \E sendOutcome \in {"ok", "throw", "none"} : WelcomeEmailSettles(c, sendOutcome)
    \/ \E c \in (IF IsAuth THEN widget.calls ELSE {}) :
         \E outcome \in BackendOutcomes : SignUpSettles(c, outcome)
    \/ \E c \in (IF IsAuth THEN widget.calls ELSE {}) :
         \E outcome \in BackendOutcomes : SignInSettles(c, outcome)
    \/ handleContinue

SpecAuth == InitAuth /\ [][NextAuth]_vars

----------------------------------------------------------------------------
(* Properties of the generation fan-out *)

\* This step is the one in which the suspended handleStartProcessing f resumes.
JoinStepOf(f) == f \in fans /\ f \notin fans' /\ last'.fan = f

StructuredFields == {"chapters", "formulas", "strategy", "quiz", "flashcards"}

\* C1: a fan-out ends either on the Dashboard with all seven bundle fields
\* holding the results of its join, or on Upload with the application state as
\* it was before the submission except for the error (lecture, examType,
\* timeFrame and every bundle field unchanged).
C1_AllOrNothing ==
    [][\A f \in fans : JoinStepOf(f) =>
         \/ /\ last'.op = "joinFulfilled"
            /\ appState'.view = DASHBOARD
            /\ \A g \in BundleFields : appState'[g] = f.res[g].val
         \/ /\ last'.op = "joinRejected"
            /\ appState'.view = UPLOAD
            /\ \A k \in (DOMAIN appState) \ {"view", "error"} :
                   appState'[k] = f.pre[k]]_vars

\* C2 as claimed: the view leaves PROCESSING for DASHBOARD or UPLOAD only once
\* all seven requests of the fan-out have completed.
C2_ViewWaitsForAllSeven ==
    [][\A f \in fans :
         (JoinStepOf(f) /\ appState.view = PROCESSING
                        /\ appState'.view \in {DASHBOARD, UPLOAD})
         => \A g \in BundleFields : f.res[g].st # "pending"]_vars

\* C2 as amended: the seven requests are issued together; the view becomes
\* DASHBOARD only in the step in which a fan-out resumes with all seven of its
\* requests fulfilled; a fan-out moves the view to UPLOAD once its summary
\* request is rejected, whatever the state of the other six.
C2_JoinAllOrFailFast ==
    [][/\ \A f \in fans' :
              (\A e \in fans : e.id # f.id)
                  => \A g \in BundleFields : f.res[g].st = "pending"
       /\ (appState'.view = DASHBOARD /\ appState.view # DASHBOARD)
              => \E f \in fans : JoinStepOf(f)
       /\ \A f \in fans : JoinStepOf(f) =>
            /\ appState'.view \in {DASHBOARD, UPLOAD}
            /\ appState'.view = DASHBOARD
                   => \A g \in BundleFields : f.res[g].st = "fulfilled"
            /\ appState'.view = UPLOAD => f.res["summary"].st = "rejected"]_vars

\* A fan-out has failed and moved the view to UPLOAD while requests of it were
\* still outstanding.
C2_Witness ==
    /\ last.op = "joinRejected"
    /\ appState.view = UPLOAD
    /\ \E g \in BundleFields : last.fan.res[g].st = "pending"

\* C3 as claimed: a failure of the AI collaborator in the summary or in the
\* cheat-sheet generation fails the fan-out: it resumes in its catch block, the
\* view becomes UPLOAD with the aggregate error, DASHBOARD is not entered.
C3_FreeTextFailureFailsFanOut ==
    [][\A f \in fans :
         (JoinStepOf(f) /\ (\/ f.res["summary"].ai = "throw"
                            \/ f.res["cheatSheet"].ai = "throw"))
         => /\ last'.op = "joinRejected"
            /\ appState'.view = UPLOAD
            /\ appState'.error = AggregateError]_vars

\* C3 as amended: only the summary failure propagates.  A failed summary request
\* rejects and the fan-out resumes in its catch block (view UPLOAD, aggregate
\* error); a failed cheat-sheet request fulfils with the fixed text "Could not
\* generate cheat sheet.", and a fan-out that succeeds stores that text.
C3_OnlySummaryFailurePropagates ==
    [][\A f \in fans :
         /\ f.res["summary"].ai = "throw" => f.res["summary"].st = "rejected"
         /\ f.res["cheatSheet"].ai = "throw" =>
                /\ f.res["cheatSheet"].st = "fulfilled"
                /\ f.res["cheatSheet"].val = <<"Could not generate cheat sheet.">>
         /\ JoinStepOf(f) =>
                /\ f.res["summary"].ai = "throw" =>
                       /\ last'.op = "joinRejected"
                       /\ appState'.view = UPLOAD
                       /\ appState'.error = AggregateError
                /\ (last'.op = "joinFulfilled" /\ f.res["cheatSheet"].ai = "throw") =>
                       /\ appState'.view = DASHBOARD
                       /\ appState'.cheatSheet = <<"Could not generate cheat sheet.">>]_vars

\* A fan-out whose cheat-sheet request failed has reached the Dashboard.
C3_Witness ==
    /\ last.op = "joinFulfilled"
    /\ last.fan.res["cheatSheet"].ai = "throw"
    /\ appState.view = DASHBOARD
    /\ appState.cheatSheet = <<"Could not generate cheat sheet.">>

\* The value a structured generator degrades to.
DegradedValue(g) == IF g = "strategy" THEN DefaultStrategy ELSE << >>

\* C4: a request error or unparsable output in a structured generator never
\* fails the fan-out: the generator fulfils with the empty sequence (the default
\* strategy for generateExamStrategy), and a fan-out whose summary succeeded
\* resumes successfully, with those values in the bundle on the Dashboard.
C4_StructuredFailuresDegrade ==
    [][\A f \in fans :
         /\ \A g \in StructuredFields :
                f.res[g].ai \in {"throw", "garbage"} =>
                    /\ f.res[g].st = "fulfilled"
                    /\ f.res[g].val = DegradedValue(g)
         /\ (/\ f.res["summary"].st = "fulfilled"
             /\ \A g \in BundleFields : f.res[g].st # "pending")
                => PromiseAll(f.res) = "fulfilled"
         /\ (JoinStepOf(f) /\ f.res["summary"].st = "fulfilled") =>
                /\ last'.op = "joinFulfilled"
                /\ appState'.view = DASHBOARD
                /\ \A g \in StructuredFields : appState'[g] = f.res[g].val]_vars

\* A fan-out whose quiz request failed has reached the Dashboard with an empty
\* quiz.
C4_Witness ==
    /\ last.op = "joinFulfilled"
    /\ last.fan.res["quiz"].ai \in {"throw", "garbage"}
    /\ appState.view = DASHBOARD
    /\ appState.quiz = << >>
    /\ appState.summary # << >>

----------------------------------------------------------------------------
(* Properties of the view state machine *)

\* C5: the view changes only along Auth->Upload (sign-in, session restoration
\* or session notification), Upload->Processing (submission),
\* Processing->Dashboard (the fan-out succeeded), Processing->Upload (the
\* fan-out failed), Dashboard->Upload (reset) and any->Auth (sign-out).
C5_OnlyListedTransitions ==
    [][appState'.view # appState.view =>
         \/ /\ appState.view = AUTH /\ appState'.view = UPLOAD
            /\ last'.op \in {"handleLogin", "checkSession", "sessionChange"}
         \/ /\ appState.view = UPLOAD /\ appState'.view = PROCESSING
            /\ last'.op = "handleStartProcessing"
         \/ /\ appState.view = PROCESSING /\ appState'.view = DASHBOARD
            /\ last'.op = "joinFulfilled"
         \/ /\ appState.view = PROCESSING /\ appState'.view = UPLOAD
            /\ last'.op = "joinRejected"
         \/ /\ appState.view = DASHBOARD /\ appState'.view = UPLOAD
            /\ last'.op = "handleReset"
         \/ /\ appState'.view = AUTH
            /\ last'.op \in {"handleSignOut", "sessionGone"}]_vars

\* Every field of the StudyBundle has its initial, empty value.
BundleEmpty(state) == \A g \in BundleFields : state[g] = InitialAppState[g]

\* C6: after a sign-out (handleSignOut, or a session-change notification
\* without a session) the view is AUTH, user and lecture are null, and every
\* bundle field and the chat history have their empty initial values.
C6_SignOutDiscardsEverything ==
    last.op \in {"handleSignOut", "sessionGone"} =>
        /\ appState.view = AUTH
        /\ appState.user = Null
        /\ appState.lecture = Null
        /\ BundleEmpty(appState)
        /\ appState.chatHistory = << >>

\* C7: handleReset on the Dashboard moves the view to UPLOAD, sets lecture to
\* null and empties every bundle field, and leaves the user as it was.
C7_ResetDiscardsBundle ==
    [][(appState.view = DASHBOARD /\ last'.op = "handleReset") =>
         /\ appState'.view = UPLOAD
         /\ appState'.lecture = Null
         /\ BundleEmpty(appState')
         /\ appState'.user = appState.user]_vars

----------------------------------------------------------------------------
(* Properties of the tutor chat *)

Last(s) == s[Len(s)]

ErrorReply == [sender |-> "ai", text |-> <<"Sorry, I encountered an error answering that.">>]

\* This step is the one in which a suspended handleSendMessage resumes.
ChatSettleStep == last'.op = "chatSettles" /\ chatReqs' # chatReqs

\* This step is a call of handleSendMessage that got past its blank check.
ChatSendStep == last'.op = "handleSendMessage" /\ turnsLeft' # turnsLeft

\* C8 as claimed: when the AI collaborator fails during a tutor turn, nothing
\* is appended, the list ends with the user's message, and the composing flag
\* is cleared.
C8_ChatFailureIsSilent ==
    [][(ChatSettleStep /\ last'.ai = "throw") =>
         /\ dash'.chatMessages = dash.chatMessages
         /\ Last(dash'.chatMessages).sender = "user"
         /\ ~dash'.isChatLoading]_vars

\* C8 as amended: when the AI collaborator fails during a tutor turn,
\* chatWithLecture returns the fixed text "Sorry, I encountered an error
\* answering that.", which is appended as one assistant message after the
\* user's message; the composing flag is cleared.
C8_ChatFailureAppendsApology ==
    [][(ChatSettleStep /\ last'.ai = "throw") =>
         /\ Last(dash.chatMessages).sender = "user"
         /\ dash'.chatMessages = Append(dash.chatMessages, ErrorReply)
         /\ ~dash'.isChatLoading]_vars

\* A tutor turn whose request failed has completed on the mounted Dashboard.
C8_Witness ==
    /\ last.op = "chatSettles"
    /\ last.ai = "throw"
    /\ appState.view = DASHBOARD
    /\ Len(dash.chatMessages) >= 3
    /\ Last(dash.chatMessages) = ErrorReply
    /\ ~dash.isChatLoading

\* An input consisting of white space only.
AllWhiteSpace(s) == \A i \in 1..Len(s) : s[i] = " "

\* C9: while the Dashboard stays mounted the message list only grows at its
\* end, by one message at a time; a submission of blank input changes nothing;
\* a submission of non-blank input appends exactly the user's message and
\* issues exactly one request; a reply appends exactly one assistant message
\* right after a user message.
C9_ChatAppendOnlyTurns ==
    [][(appState.view = DASHBOARD /\ appState'.view = DASHBOARD) =>
         LET old == dash.chatMessages
             new == dash'.chatMessages
         IN  /\ Len(new) \in {Len(old), Len(old) + 1}
             /\ SubSeq(new, 1, Len(old)) = old
             /\ (last'.op \in {"sendBlank", "handleSendMessage"} /\ last' # last
                 /\ AllWhiteSpace(dash.chatInput)) =>
                    /\ dash' = dash
                    /\ chatReqs' = chatReqs
             /\ ChatSendStep =>
                    /\ ~AllWhiteSpace(dash.chatInput)
                    /\ new = Append(old, [sender |-> "user", text |-> dash.chatInput])
                    /\ chatReqs \subseteq chatReqs'
                    /\ Cardinality(chatReqs') = Cardinality(chatReqs) + 1
             /\ ChatSettleStep =>
                    /\ Last(old).sender = "user"
                    /\ Len(new) = Len(old) + 1
                    /\ Last(new).sender = "ai"
                    /\ Cardinality(chatReqs') = Cardinality(chatReqs) - 1
             /\ new # old => (ChatSendStep \/ ChatSettleStep)]_vars

\* A turn has completed: greeting, user message, assistant reply.
C9_Witness ==
    /\ last.op = "chatSettles"
    /\ last.ai = "text"
    /\ appState.view = DASHBOARD
    /\ Len(dash.chatMessages) = 3
    /\ dash.chatMessages[1] = WelcomeMessage
    /\ dash.chatMessages[2] = [sender |-> "user", text |-> <<"why?">>]
    /\ dash.chatMessages[3].sender = "ai"

\* C10: the request of a tutor turn carries the prior message history: with
\* the same transcript and the same new text, an earlier (shorter) history of
\* the session would have given a different request.
C10_RequestCarriesHistory ==
    \A r \in chatReqs : \A n \in 1..(Len(r.history) - 1) :
        ChatRequest(r.transcript, SubSeq(r.history, 1, n), r.message) # r.request

\* The composing signal of the mounted Dashboard.
Composing == dash # Unmounted /\ dash.isChatLoading

----------------------------------------------------------------------------
(* Properties of the upload screen *)

\* This step is the one in which a call of handleYouTubeProcess resumes after
\* its transcript request.
TranscriptSettleStep ==
    \E r \in ytReqs : r.stage = "transcript" /\ r \notin ytReqs'

\* C12: when the AI collaborator fails while the transcript of a video is
\* reconstructed, handleYouTubeProcess raises its alert and aborts: onStart is
\* not called, so no Lecture is created and no fan-out started, and the view
\* stays where it was, on Upload.
C12_TranscriptFailureAborts ==
    [][(TranscriptSettleStep /\ last'.ai = "throw") =>
         /\ last'.op = "alert: Failed to analyze video. Please check the link and try again."
         /\ fans' = fans
         /\ appState'.lecture = appState.lecture
         /\ appState'.view = appState.view]_vars

\* The requests of handleYouTubeProcess calls made in this step.
NewYtReqs == {r \in ytReqs' : \A e \in ytReqs : e.id # r.id}

\* The fan-outs started in this step.
NewFans == {f \in fans' : \A e \in fans : e.id # f.id}

\* C13: invalid input is turned away before any network call.  A click with a
\* link from which extractVideoId gets no id raises the alert and changes
\* nothing: no metadata fetch, no AI request, no call of onStart, the view and
\* the application state as they were; every metadata fetch is for a link with
\* an 11-character id.  No fan-out is started from the text tab with a
\* transcript shorter than 50 characters.
C13_InvalidInputRejected ==
    [][/\ last'.op = "alert: Invalid YouTube URL" =>
             /\ appState.view = UPLOAD
             /\ UNCHANGED <<appState, fans, ytReqs, upload, dash, chatReqs>>
       /\ \A r \in NewYtReqs :
             /\ MatchGroup2(r.url) # Null
             /\ Len(MatchGroup2(r.url).text) = 11
             /\ r.videoId = MatchGroup2(r.url)
       /\ last'.op = "handleStartProcessing" =>
             \A f \in NewFans : f.text.len >= 50 /\ f.text \in Transcripts]_vars

\* A click with the link youtu.be/abc has just been turned away on the upload
\* screen, where nothing is under way.
C13_Witness ==
    /\ last.op = "alert: Invalid YouTube URL"
    /\ appState.view = UPLOAD
    /\ appState.lecture = Null
    /\ fans = {}
    /\ ytReqs = {}
    /\ ~upload.isTranscribing

\* The text of url from position from up to the next #, & or ?.
TextUpToDelimiter(url, from) ==
    LET stops == {k \in from..Len(url) : url[k] \in {"#", "&", "?"}} \cup {Len(url) + 1}
        stop == CHOOSE k \in stops : \A j \in stops : k <= j
    IN  SubSeq(url, from, stop - 1)

\* The markers the claim lists.
ListedMarkers == {WatchV, YoutuBe, Embed, <<"v", "/">>, <<"&", "v", "=">>}

\* The places of url where one of the listed markers stands.
ListedMarkerPlaces(url) ==
    {<<i, m>> \in (1..Len(url)) \X ListedMarkers : Literal(url, i, m)}

\* C14 as claimed: extractVideoId returns an id only when the text after one
\* of the markers watch?v=, youtu.be/, embed/, v/, &v= up to the next #, & or ?
\* is exactly 11 characters long, and then returns that text; the watch?v= and
\* the youtu.be/ form of an id give the same id; a link with fewer than 11
\* characters after the marker gives null.
C14_ElevenAfterListedMarker ==
    (widget.kind = "extractVideoId" /\ widget.result # Unset) =>
        LET url == widget.url
            res == widget.result
            places == ListedMarkerPlaces(url)
        IN  /\ res # Null =>
                  \E pl \in places :
                      /\ Len(TextUpToDelimiter(url, pl[1] + Len(pl[2]))) = 11
                      /\ res.text = TextUpToDelimiter(url, pl[1] + Len(pl[2]))
            /\ url \in {WatchV \o VideoId, YoutuBe \o VideoId} =>
                  (res # Null /\ res.text = VideoId)
            /\ (/\ places # {}
                /\ \A pl \in places :
                      Len(TextUpToDelimiter(url, pl[1] + Len(pl[2]))) < 11) =>
                  res = Null

\* The places of url where an alternative of the expression's first group
\* matches: youtu, any character, be/; v/; u/, a word character, /; embed/;
\* watch?v=; &v=.
MarkerPlaces(url) == {i \in 1..Len(url) : MarkerLength(url, i) > 0}

\* C14 as amended: for a link without line break, extractVideoId returns an id
\* exactly when the link holds a marker of the expression (the five listed
\* ones, with any character for the dot of youtu.be/, and u/<word character>/)
\* and the text after the last marker of the link up to the next #, & or ? is
\* exactly 11 characters long; it then returns that text; the watch?v= and the
\* youtu.be/ form of an id give the same id; with fewer (or more) than 11
\* characters after the last marker it returns null.
C14_ElevenAfterLastMarker ==
    (widget.kind = "extractVideoId" /\ widget.result # Unset) =>
        LET url == widget.url
            res == widget.result
            places == MarkerPlaces(url)
            after == {TextUpToDelimiter(url, i + MarkerLength(url, i)) :
                          i \in {j \in places : \A k \in places : k <= j}}
        IN  /\ res # Null <=> \E t \in after : Len(t) = 11
            /\ res # Null => (res.kind = "string" /\ res.text \in after)
            /\ url \in {WatchV \o VideoId, YoutuBe \o VideoId} =>
                  (res # Null /\ res.text = VideoId)
            /\ (\A t \in after : Len(t) < 11) => res = Null

\* extractVideoId has returned the id of a link of the shape a/u/1/<id>, which
\* holds none of the listed markers.
C14_Witness ==
    /\ widget.kind = "extractVideoId"
    /\ widget.url = <<"a", "/", "u", "/", "1", "/">> \o VideoId
    /\ widget.result # Unset
    /\ widget.result # Null
    /\ widget.result.text = VideoId
    /\ ListedMarkerPlaces(widget.url) = {}

----------------------------------------------------------------------------
(* Properties of the quiz *)

IsQuiz == widget.kind = "QuizComponent"

\* The questions of quiz w that have a recorded answer, by position.
Answered(w) == {i \in 1..Len(w.questions) : w.questions[i].id \in DOMAIN w.userAnswers}

\* C15: for every non-empty quiz, in every state reached by selecting
\* options, Submit is enabled if and only if every question has a recorded
\* answer.
C15_SubmitIffAllAnswered ==
    (IsQuiz /\ ~widget.showResults) =>
        (~SubmitDisabled(widget) <=> Answered(widget) = 1..Len(widget.questions))

\* C16: the score is the number of questions q with answers[q.id] =
\* q.correctAnswerIndex; it is determined by the quiz and the answer mapping,
\* whatever selections led to the mapping.
C16_ScoreCountsCorrectAnswers ==
    IsQuiz =>
        /\ widget.score =
             Cardinality({i \in Answered(widget) :
                 widget.userAnswers[widget.questions[i].id]
                     = widget.questions[i].correctAnswerIndex})
        /\ widget.score \in 0..Len(widget.questions)

\* The results show a quiz of two questions with one answer right and the
\* other wrong.
C16_Witness ==
    /\ IsQuiz
    /\ widget.showResults
    /\ Len(widget.questions) = 2
    /\ widget.questions[1].id # widget.questions[2].id
    /\ widget.score = 1
    /\ widget.userAnswers[widget.questions[2].id] # widget.questions[2].correctAnswerIndex

BandTitles == <<"Needs Review", "Good Start", "Great Progress", "Outstanding Mastery!">>

\* The place of a band from the worst (1) to the best (4).
BandRank(feedback) == CHOOSE k \in 1..4 : BandTitles[k] = feedback.title

\* C17: the band is a function of score and total with inclusive lower
\* bounds at 90, 70 and 50 percent; for every total >= 1 and 0 <= score <=
\* total exactly one band is returned, and the band never gets worse when the
\* score increases.  The results shown by the component carry this band.
C17_BandsInclusiveAndMonotone ==
    /\ \A total \in 1..MaxTotal : \A score \in 0..total :
          LET title == getPerformanceFeedback(score, total).title
          IN  /\ title = (IF 100 * score >= 90 * total THEN "Outstanding Mastery!"
                          ELSE IF 100 * score >= 70 * total THEN "Great Progress"
                          ELSE IF 100 * score >= 50 * total THEN "Good Start"
                          ELSE "Needs Review")
              /\ Cardinality({k \in 1..4 : BandTitles[k] = title}) = 1
              /\ score < total =>
                    BandRank(getPerformanceFeedback(score, total))
                        <= BandRank(getPerformanceFeedback(score + 1, total))
    /\ (IsQuiz /\ widget.showResults) =>
          widget.feedback = getPerformanceFeedback(widget.score, Len(widget.questions))
    /\ (IsQuiz /\ ~widget.showResults) => widget.feedback = Null

\* The results show one right answer out of two, exactly 50 percent: the band
\* is Good Start.
C17_Witness ==
    /\ IsQuiz
    /\ widget.showResults
    /\ Len(widget.questions) = 2
    /\ widget.score = 1
    /\ widget.feedback.title = "Good Start"
    /\ widget.last = "submit"

\* C18: once the results are shown, selecting an option leaves the answer
\* mapping, the score and the band unchanged; the mapping changes again only
\* after Retake, which clears the mapping and the results flag.
C18_ResultsFreezeAnswers ==
    [][(IsQuiz /\ widget.showResults) =>
         \/ /\ widget'.userAnswers = widget.userAnswers
            /\ widget'.score = widget.score
            /\ widget'.feedback = widget.feedback
            /\ widget'.showResults
         \/ /\ widget'.last = "retake"
            /\ widget'.userAnswers = << >>
            /\ ~widget'.showResults]_vars

\* An option was clicked while the results were shown.
C18_Witness ==
    /\ IsQuiz
    /\ widget.showResults
    /\ widget.last = "handleOptionSelect"
    /\ Answered(widget) = 1..Len(widget.questions)

----------------------------------------------------------------------------
(* Properties of the flashcard deck *)

IsDeck == widget.kind = "FlashcardDeck"

\* The number of clicks of one kind among the first n clicks.
Count(clicks, n, kind) == Cardinality({i \in 1..n : clicks[i] = kind})

\* C19: for a deck of N >= 1 cards the index is always in [0, N); a next moves
\* index i to (i + 1) mod N and a previous to (i - 1 + N) mod N once its
\* delayed update has run, so that with the updates of the first clicks done
\* the index is (nexts - previouses) mod N, which is (nexts + previouses *
\* (N - 1)) mod N; N nexts from 0 give 0 again, previous from 0 gives N - 1,
\* next and then previous gives the index back.
C19_IndexWrapsModuloN ==
    IsDeck =>
        LET N == widget.length
            done == Len(widget.clicks) - Len(widget.timers)
            nexts == Count(widget.clicks, done, "next")
            prevs == Count(widget.clicks, done, "prev")
        IN  /\ widget.currentIndex \in 0..(N - 1)
            /\ done >= 0
            /\ widget.currentIndex = (nexts + prevs * (N - 1)) % N
            /\ (widget.timers = << >> /\ widget.clicks = [i \in 1..N |-> "next"]) =>
                  widget.currentIndex = 0
            /\ (widget.timers = << >> /\ widget.clicks = <<"prev">>) =>
                  widget.currentIndex = N - 1
            /\ (widget.timers = << >> /\ widget.clicks = <<"next", "prev">>) =>
                  widget.currentIndex = 0
            /\ (widget.timers = << >> /\ widget.clicks = <<"next", "next", "prev">>) =>
                  widget.currentIndex = NextIndex(0, N)

\* Four nexts on a deck of four cards have all run: the first card is back.
C19_Witness ==
    /\ IsDeck
    /\ widget.length = 4
    /\ widget.clicks = <<"next", "next", "next", "next">>
    /\ widget.timers = << >>
    /\ widget.currentIndex = 0

----------------------------------------------------------------------------
(* Properties of the welcome email *)

IsEmail == widget.kind = "sendWelcomeEmail"

\* C20: sendWelcomeEmail never surfaces a failure: it completes with success
\* = true and the subject and body of the welcome template for the name;
\* simulated is false exactly when the three credentials are configured and
\* the provider's send succeeded, true when a credential is missing or the
\* send threw; without all three credentials the provider is not contacted.
C20_WelcomeEmailNeverFails ==
    IsEmail =>
        /\ widget.stage = "done" =>
              /\ widget.result # Unset
              /\ widget.result.success = TRUE
              /\ widget.result.subject = getWelcomeEmailTemplate(widget.name).subject
              /\ widget.result.body = getWelcomeEmailTemplate(widget.name).body
              /\ widget.result.simulated = FALSE <=>
                    (/\ \A k \in DOMAIN widget.config : widget.config[k] # << >>
                     /\ widget.sent = "ok")
              /\ widget.result.simulated = TRUE <=>
                    (\/ \E k \in DOMAIN widget.config : widget.config[k] = << >>
                     \/ widget.sent = "throw")
        /\ widget.stage # "done" => widget.result = Unset
        /\ (\E k \in DOMAIN widget.config : widget.config[k] = << >>) => widget.sent = "no"
        /\ widget.stage \in {"called", "sending", "simulating", "done"}

\* With all three credentials the provider's send threw, and the call has
\* completed with the simulated result.
C20_Witness ==
    /\ IsEmail
    /\ widget.stage = "done"
    /\ Configured(widget.config)
    /\ widget.sent = "throw"
    /\ widget.result.success
    /\ widget.result.simulated

----------------------------------------------------------------------------
(* Properties of the Auth component *)

\* The step is the named step of the Auth component.
AuthStep(op) == IsAuth /\ widget'.did # widget.did /\ widget'.did.op = op

\* The welcome email of a sign-up in demo mode resolves while the form is shown.
DemoWelcomeStep ==
    /\ AuthStep("welcomeEmail")
    /\ ~widget.isSupabaseConfigured
    /\ widget.mounted

\* C21 (as stated): with the identity backend unconfigured, a sign-up with an
\* email and a name starts the welcome-email flow, the flow's simulated flag
\* is true, and a demo user with that email and name is handed to onLogin,
\* which makes the view UPLOAD.
C21_DemoSignUpSimulated ==
    [][DemoWelcomeStep => widget'.welcomeData.simulated = TRUE]_vars

\* C21 (amended): with the identity backend unconfigured, a sign-up with an
\* email and a name waits for the timer, sends the welcome email and shows the
\* modal without logging in; the simulated flag is true unless the three
\* email credentials are set and the send succeeded; the Continue button of
\* the modal hands the demo user with that email and name to onLogin and the
\* view becomes UPLOAD.
C21_DemoSignUp ==
    [][(IsAuth /\ ~widget.isSupabaseConfigured) =>
         /\ AuthStep("handleAuth") =>
              /\ widget'.did.call.stage = "timer"
              /\ widget'.did.call \in widget'.calls
              /\ appState' = appState
         /\ (AuthStep("demoTimer") /\ widget'.did.call.form.isSignUp) =>
              /\ \E c \in widget'.calls :
                    /\ c.stage = "emailDemo"
                    /\ c.user = [id |-> "demo-user-123",
                                 email |-> widget'.did.call.form.email,
                                 name |-> widget'.did.call.form.name]
              /\ appState' = appState
         /\ DemoWelcomeStep =>
              /\ widget'.showWelcome
              /\ widget'.pendingUser = widget'.did.call.user
              /\ widget'.welcomeData.simulated =
                     ~(Configured(widget.config) /\ widget'.did.sendOutcome = "ok")
              /\ widget'.welcomeData.subject =
                     getWelcomeEmailTemplate(<<widget'.did.call.form.name>>).subject
              /\ ~widget'.loading
              /\ appState' = appState
         /\ AuthStep("handleContinue") =>
              /\ appState'.user = widget.pendingUser
              /\ appState'.view = UPLOAD]_vars

\* A demo sign-up of Jane went through the modal: she is logged in on the
\* upload screen and the email was simulated.
C21_Witness ==
    /\ IsAuth /\ ~widget.isSupabaseConfigured
    /\ widget.did.op = "handleContinue"
    /\ appState.view = UPLOAD
    /\ appState.user = [id |-> "demo-user-123", email |-> "a@b.com", name |-> "Jane"]
    /\ widget.welcomeData.simulated

\* The identity backend rejected the attempt, or answered a sign-up without a
\* user record, while the form is shown.
AuthFailureStep ==
    /\ \/ AuthStep("signUp") /\ widget'.did.outcome \in {"noUser", "error"}
       \/ AuthStep("signIn") /\ widget'.did.outcome = "error"
    /\ widget.mounted

\* C22: a failed authentication attempt (sign-in or sign-up rejected by the
\* identity backend, or a sign-up answered without a user record) leaves the
\* view AUTH, does not call onLogin, sets the error message and clears the
\* loading flag.
C22_FailureIsResubmittable ==
    [][AuthFailureStep =>
         /\ appState' = appState
         /\ widget'.mounted
         /\ widget'.error # Null
         /\ ~widget'.loading]_vars

----------------------------------------------------------------------------
(* Properties of the stored bundle *)

\* C23: every quiz stored in the application state has, for each question,
\* exactly 4 answer options and a correctAnswerIndex in [0, 4), whatever
\* structured payload the AI collaborator returned to generateQuiz.
C23_StoredQuizWellFormed ==
    \A i \in 1..Len(appState.quiz) :
        /\ Len(appState.quiz[i].options) = 4
        /\ appState.quiz[i].correctAnswerIndex \in 0..3

----------------------------------------------------------------------------
(* Further properties of FlashcardDeck *)

\* C26: a Next Card or Previous click clears the revealed flag at once and
\* changes the index only when its timer fires, and whenever the index changes
\* the revealed flag is false, whatever clicks on the card or on Next Card and
\* Previous fall into the delay.
C26_IndexChangesUnrevealed ==
    [][IsDeck =>
         /\ Len(widget'.clicks) > Len(widget.clicks) =>
              /\ ~widget'.flipped
              /\ widget'.currentIndex = widget.currentIndex
         /\ widget'.currentIndex # widget.currentIndex =>
              /\ ~widget.flipped
              /\ ~widget'.flipped]_vars

----------------------------------------------------------------------------
(* Properties of the application state across submissions and sessions *)

\* Bundle field g of the state is what its generator makes of the transcript
\* of the state's lecture under some outcome of its request.
GeneratedFromLecture(state, g) ==
    \E outcome \in Outcomes(g) :
        LET p == Generate(g, state.lecture.transcript, state.examType,
                          state.timeFrame, outcome)
        IN  p.st = "fulfilled" /\ state[g] = p.val

\* C27: whenever the view is DASHBOARD a lecture is held and every field of
\* the bundle was generated from the transcript of that lecture; a fan-out
\* that completes after a newer submission, a reset or a sign-out never puts
\* its results next to a different or absent lecture.
C27_BundleOfCurrentLecture ==
    appState.view = DASHBOARD =>
        /\ appState.lecture # Null
        /\ \A g \in BundleFields : GeneratedFromLecture(appState, g)

\* C28: the view is UPLOAD, PROCESSING or DASHBOARD only while a user is
\* present; no completion of a request in flight moves the view out of AUTH
\* while user is null.
C28_ViewNeedsUser ==
    appState.view \in {UPLOAD, PROCESSING, DASHBOARD} => appState.user # Null

\* C30: a session-change notification with a session changes only the user
\* and, from AUTH, the view (to UPLOAD); checkSession resuming with a session
\* never moves the view away from PROCESSING or DASHBOARD.
C30_SessionKeepsWork ==
    [][/\ last'.op = "sessionChange" =>
            appState' = [appState EXCEPT
                           !.user = appState'.user,
                           !.view = IF @ = AUTH THEN UPLOAD ELSE @]
       /\ (last'.op = "checkSession" /\ appState.view \in {PROCESSING, DASHBOARD}) =>
            appState'.view = appState.view]_vars

\* C24: whenever a fan-out succeeds and its results are merged, the message
\* list the Dashboard shows is exactly the one assistant greeting: no message
\* of a chat about an earlier bundle survives.
C24_ReadyBundleReseedsChat ==
    [][last'.op = "joinFulfilled" =>
         /\ appState'.chatHistory = <<WelcomeMessage>>
         /\ dash'.chatMessages = <<WelcomeMessage>>]_vars

\* C25: at most one generation fan-out is in flight at any time.
C25_AtMostOneFanOut == Cardinality(fans) <= 1

\* C29: with the view PROCESSING or DASHBOARD the error field is null; a new
\* submission clears the error of a failed one.
C29_ErrorOnlyOnUpload ==
    appState.view \in {PROCESSING, DASHBOARD} => appState.error = Null

====
